---- MODULE Spec2Model ----
(***************************************************************************)
(* Model of word_to_markdown.py: the batch driver that probes the external *)
(* converter, scans the input directory for .docx files, invokes the       *)
(* converter once per file and reports an aggregate summary and exit code. *)
(*                                                                         *)
(* The external world is modelled by its outcomes: the result of each      *)
(* subprocess invocation, what the converter did to the output file, the   *)
(* contents of the input and output directories and whether the output     *)
(* directory can be searched (stat of a child raises PermissionError       *)
(* otherwise).  Console output (print) is taken to always succeed.         *)
(*                                                                         *)
(* Strings are sequences of tokens, so that a file name, its stem, the     *)
(* derived output name and the formatted messages are computed the way the *)
(* code computes them.  The Chinese message literals are glossed in ASCII: *)
(*   "converted: "     = "转换成功: "     "output empty: " = "输出文件为空: "  *)
(*   "failed: "        = "转换失败: "     "unknown error"  = "未知错误"         *)
(*   "timed out (60s)" = "转换超时（60秒）" "exception: "    = "转换异常: "       *)
(***************************************************************************)
EXTENDS Integers, Sequences, FiniteSets, TLC

\* ---- bounds -------------------------------------------------------------
MaxFiles == 2     \* number of distinct .docx names that may be in the input dir
MaxRuns == 2      \* number of successive process invocations on the same dirs

\* ---- names ---------------------------------------------------------------
StemPool == <<"report", "notes", "draft", "memo">>

DocxPool == {<<StemPool[k], ".docx">> : k \in 1..MaxFiles}

\* a directory entry that is not a Word document; an existing input
\* directory always holds it, next to any subset of the .docx names
OtherEntry == <<"readme", ".txt">>

\* Path.stem: the name without its last suffix
Stem(name) == SubSeq(name, 1, Len(name) - 1)

\* markdown_file = output_dir / f"{word_file.stem}.md"
MarkdownName(word_file) == Stem(word_file) \o <<".md">>

\* line 125: the path handed to the converter after -o
OutputArgKeepsSuffix(word_file) == word_file \o <<".md">>

OutputArg(word_file) == MarkdownName(word_file)

\* the names that can occur in the output directory
MdPool == {MarkdownName(w) : w \in DocxPool} \cup {OutputArg(w) : w \in DocxPool}

\* glob("*.docx"): the entries whose last suffix is .docx
GlobDocx(entries) == {e \in entries : e[Len(e)] = ".docx"}

\* all orderings of a finite set (directory order is not specified)
RECURSIVE Orderings(_)
Orderings(S) ==
    IF S = {} THEN {<<>>}
    ELSE UNION {{<<x>> \o t : t \in Orderings(S \ {x})} : x \in S}

\* find_word_files: [] for a missing directory, else the globbed files
FindWordFiles(dir) ==
    IF ~dir.exists THEN {<<>>} ELSE Orderings(GlobDocx(dir.entries))

\* ---- outcomes of the external converter ----------------------------------
\* version probe: ['pandoc', '--version'] with timeout=5
ProbeOutcomes == {"not_found", "os_error", "timeout", "nonzero",
                  "zero_version", "zero_short"}

\* what check_pandoc does with a probe outcome
check_pandoc_ignores_status(o) ==
    CASE o \in {"zero_version", "nonzero"} -> "True"
      [] o \in {"not_found", "timeout"} -> "False"
      [] o \in {"zero_short", "os_error"} -> "raise"

check_pandoc(o) ==
    CASE o = "zero_version" -> "True"     \* returncode 0, stdout has a version
      [] o = "zero_short"   -> "raise"    \* stdout.split()[1]: IndexError
      [] o = "nonzero"      -> "False"
      [] o = "not_found"    -> "False"    \* FileNotFoundError caught
      [] o = "timeout"      -> "False"    \* TimeoutExpired caught
      [] o = "os_error"     -> "raise"    \* e.g. PermissionError: not caught

\* conversion: how subprocess.run ends once the process was launched
RunOutcomes == {"zero", "nonzero", "timeout"}

\* what the converter did to the output path during the invocation
Effects == {"none", "empty", "full"}

\* captured standard error of the converter
Stderrs == {<<>>, <<"bad format", "\n">>}

IsSpace(tok) == tok \in {" ", "\n"}

\* str.strip()
RECURSIVE Strip(_)
Strip(s) ==
    IF s = <<>> THEN s
    ELSE IF IsSpace(s[1]) THEN Strip(Tail(s))
    ELSE IF IsSpace(s[Len(s)]) THEN Strip(SubSeq(s, 1, Len(s) - 1))
    ELSE s

\* content of an output file: absent, zero bytes, or non-empty text stamped
\* with the run that wrote it (0: present before the first run)
Absent == <<"absent">>
Empty == <<"empty">>
Text(stamp) == <<"text", stamp>>

Contents == {Absent, Empty} \cup {Text(r) : r \in 0..MaxRuns}

\* Path.exists()
Exists(c) == c # Absent

\* Path.stat().st_size
StSize(c) == IF c = Empty THEN 0 ELSE 1

\* the output file after the converter acted on it
Written(old, effect, stamp) ==
    CASE effect = "none"  -> old
      [] effect = "empty" -> Empty
      [] effect = "full"  -> Text(stamp)

\* ---- convert_file: the result of one invocation ---------------------------
MsgSuccess(md) == <<"converted: ">> \o md
MsgEmpty(md) == <<"output empty: ">> \o md
MsgFailed(stderr) ==
    <<"failed: ">> \o (IF stderr # <<>> THEN Strip(stderr) ELSE <<"unknown error">>)
MsgTimeout == <<"timed out (60s)">>
MsgException == <<"exception: ", "launch error">>

\* lines 143-157: outcome of subprocess.run and the output file after it
ConvertResultNoSizeCheck(outcome, stderr, md, content) ==
    CASE outcome = "timeout" -> <<FALSE, MsgTimeout>>
      [] outcome = "nonzero" -> <<FALSE, MsgFailed(stderr)>>
      [] outcome = "zero" ->
            IF Exists(content)
            THEN <<TRUE, MsgSuccess(md)>>
            ELSE <<FALSE, MsgEmpty(md)>>

ConvertResultCatchAllFirst(outcome, stderr, md, content) ==
    CASE outcome = "timeout" -> <<FALSE, MsgException>>
      [] outcome = "nonzero" -> <<FALSE, MsgFailed(stderr)>>
      [] outcome = "zero" ->
            IF Exists(content) /\ StSize(content) > 0
            THEN <<TRUE, MsgSuccess(md)>>
            ELSE <<FALSE, MsgEmpty(md)>>

ConvertResult(outcome, stderr, md, content) ==
    CASE outcome = "timeout" -> <<FALSE, MsgTimeout>>
      [] outcome = "nonzero" -> <<FALSE, MsgFailed(stderr)>>
      [] outcome = "zero" ->
            IF Exists(content) /\ StSize(content) > 0
            THEN <<TRUE, MsgSuccess(md)>>
            ELSE <<FALSE, MsgEmpty(md)>>

\* subprocess.run: the child is reaped on return; on timeout it is killed
\* and waited for before TimeoutExpired is raised
ProcAfter(outcome) == IF outcome = "timeout" THEN "killed" ELSE "exited"

\* errors.append(f"{word_file.name}: {msg}")
ErrorEntryNoName(word_file, msg) == msg

ErrorEntry(word_file, msg) == word_file \o <<": ">> \o msg

\* lines 188-191: success_count / fail_count after one result
TallyDropsFailure(success, sc, fc) ==
    IF success THEN <<sc + 1, fc>> ELSE <<sc, fc>>

Tally(success, sc, fc) ==
    IF success THEN <<sc + 1, fc>> ELSE <<sc, fc + 1>>

\* line 108: the warning is printed when the derived output already exists
WarnExisting(content) == Exists(content)

\* lines 279-288: --check scans only, otherwise the batch is converted
AfterCheckIgnoresFlag(checkFlag) == "convert_all"

AfterCheck(checkFlag) == IF checkFlag THEN "scan" ELSE "convert_all"

\* sys.exit(0 if fail_count == 0 else 1)
ExitStatusAlwaysZero(fails) == 0

ExitStatus(fails) == IF fails = 0 THEN 0 ELSE 1

\* status of the interpreter when an exception reaches the top level
UncaughtStatus == 1

\* ---- state ----------------------------------------------------------------
VARIABLES
    inputDir,       \* input directory: whether it exists, and its entries
    outSearchable,  \* FALSE: stat of a child of the output dir raises EACCES
    fs,             \* output directory: derived name -> content
    run,            \* number of the current process invocation
    check,          \* args.check
    pc,             \* position of main
    probe,          \* outcome of the version probe ("none" before it ran)
    word_files,     \* the list returned by find_word_files
    i,              \* number of files the loop of convert_all has finished
    success_count, fail_count, errors,
    cur,            \* the convert_file call in progress
    ret,            \* what convert_file returned: <<success, msg>>
    proc,           \* converter child process of the current invocation
    exitCode,       \* exit status of the process (-1 while running)
    crashed,        \* an exception propagated out of main
    calls,          \* files passed to convert_file, in order
    results,        \* <<file, success, msg>> of every returned convert_file
    log             \* phases main went through in this run

vars == <<inputDir, outSearchable, fs, run, check, pc, probe, word_files, i,
          success_count, fail_count, errors, cur, ret, proc, exitCode,
          crashed, calls, results, log>>

env == <<inputDir, outSearchable>>

NoCall == [file |-> <<>>, pre |-> Absent, warned |-> FALSE,
           outcome |-> "none", effect |-> "none"]

NoRet == <<FALSE, <<>>>>

\* the state after Word2Markdown.__init__, on any directories
Init ==
    /\ inputDir \in {[exists |-> FALSE, entries |-> {}]} \cup
                    {[exists |-> TRUE, entries |-> d \cup {OtherEntry}] :
                        d \in SUBSET DocxPool}
    /\ outSearchable \in BOOLEAN
    /\ fs \in [MdPool -> {Absent, Text(0)}]
    /\ run = 1
    /\ check \in BOOLEAN
    /\ pc = "check_pandoc"
    /\ probe = "none"
    /\ word_files = <<>>
    /\ i = 0
    /\ success_count = 0
    /\ fail_count = 0
    /\ errors = <<>>
    /\ cur = NoCall
    /\ ret = NoRet
    /\ proc = "none"
    /\ exitCode = -1
    /\ crashed = FALSE
    /\ calls = <<>>
    /\ results = <<>>
    /\ log = <<>>

\* an exception reaches the top level: traceback, exit status 1
Crash ==
    /\ pc' = "exit"
    /\ crashed' = TRUE
    /\ exitCode' = UncaughtStatus

\* main, lines 269-276: the availability check
CheckPandoc ==
    /\ pc = "check_pandoc"
    /\ \E o \in ProbeOutcomes :
        /\ probe' = o
        /\ log' = Append(log, "check")
        /\ CASE check_pandoc(o) = "True" ->
                    /\ pc' = AfterCheck(check)
                    /\ UNCHANGED <<exitCode, crashed>>
             [] check_pandoc(o) = "False" ->
                    /\ pc' = "exit"
                    /\ exitCode' = 1
                    /\ UNCHANGED crashed
             [] check_pandoc(o) = "raise" -> Crash
    /\ UNCHANGED <<env, fs, run, check, word_files, i, success_count,
                   fail_count, errors, cur, ret, proc, calls, results>>

\* main, lines 279-285: --check mode
CheckOnly ==
    /\ pc = "scan"
    /\ \E fl \in FindWordFiles(inputDir) : word_files' = fl
    /\ log' = Append(log, "discover")
    /\ pc' = "exit"
    /\ exitCode' = 0
    /\ UNCHANGED <<env, fs, run, check, probe, i, success_count, fail_count,
                   errors, cur, ret, proc, crashed, calls, results>>

\* convert_all, lines 168-175: discovery and the early return on no files
ConvertAllBegin ==
    /\ pc = "convert_all"
    /\ \E fl \in FindWordFiles(inputDir) :
        /\ word_files' = fl
        /\ pc' = IF fl = <<>> THEN "summary" ELSE "loop"
    /\ log' = Append(log, "discover")
    /\ success_count' = 0
    /\ fail_count' = 0
    /\ errors' = <<>>
    /\ UNCHANGED <<env, fs, run, check, probe, i, cur, ret, proc, exitCode,
                   crashed, calls, results>>

\* convert_file, lines 105-141: derive the output name, warn if it exists,
\* build the command and launch the converter
ConvertFileCall ==
    /\ pc = "loop"
    /\ i < Len(word_files)
    /\ LET word_file == word_files[i + 1]
           md == MarkdownName(word_file)
       IN /\ calls' = Append(calls, word_file)
          /\ log' = Append(log, "convert")
          /\ IF ~outSearchable
             THEN \* markdown_file.exists() raises outside the try block
                  /\ Crash
                  /\ UNCHANGED <<cur, ret, proc, results>>
             ELSE /\ UNCHANGED <<exitCode, crashed>>
                  /\ \/ \* the child could not be started: except Exception
                        /\ cur' = [file |-> word_file, pre |-> fs[md],
                                   warned |-> WarnExisting(fs[md]),
                                   outcome |-> "launch_error", effect |-> "none"]
                        /\ ret' = <<FALSE, MsgException>>
                        /\ results' = Append(results, <<word_file, FALSE, MsgException>>)
                        /\ pc' = "returned"
                        /\ UNCHANGED proc
                     \/ /\ cur' = [file |-> word_file, pre |-> fs[md],
                                   warned |-> WarnExisting(fs[md]),
                                   outcome |-> "none", effect |-> "none"]
                        /\ proc' = "running"
                        /\ pc' = "running"
                        /\ UNCHANGED <<ret, results>>
    /\ UNCHANGED <<env, fs, run, check, probe, word_files, i, success_count,
                   fail_count, errors>>

\* convert_file, lines 135-157: subprocess.run comes back and the result is
\* classified
ConvertFileReturn ==
    /\ pc = "running"
    /\ \E outcome \in RunOutcomes, effect \in Effects, stderr \in Stderrs :
        LET md == MarkdownName(cur.file)
            out == OutputArg(cur.file)
            after == [fs EXCEPT ![out] = Written(fs[out], effect, run)]
            r == ConvertResult(outcome, stderr, md, after[md])
        IN /\ (outcome # "nonzero" => stderr = <<>>)
           /\ fs' = after
           /\ proc' = ProcAfter(outcome)
           /\ cur' = [cur EXCEPT !.outcome = outcome, !.effect = effect]
           /\ ret' = r
           /\ results' = Append(results, <<cur.file, r[1], r[2]>>)
    /\ pc' = "returned"
    /\ UNCHANGED <<env, run, check, probe, word_files, i, success_count,
                   fail_count, errors, exitCode, crashed, calls, log>>

\* convert_all, lines 186-194: account for the result of one file
Accumulate ==
    /\ pc = "returned"
    /\ LET t == Tally(ret[1], success_count, fail_count)
       IN /\ success_count' = t[1]
          /\ fail_count' = t[2]
    /\ errors' = IF ret[1] THEN errors
                 ELSE Append(errors, ErrorEntry(cur.file, ret[2]))
    /\ i' = i + 1
    /\ cur' = NoCall
    /\ ret' = NoRet
    /\ pc' = "loop"
    /\ UNCHANGED <<env, fs, run, check, probe, word_files, proc, exitCode,
                   crashed, calls, results, log>>

\* convert_all, line 196: the loop is over
ConvertAllReturn ==
    /\ pc = "loop"
    /\ i = Len(word_files)
    /\ pc' = "summary"
    /\ UNCHANGED <<env, fs, run, check, probe, word_files, i, success_count,
                   fail_count, errors, cur, ret, proc, exitCode, crashed,
                   calls, results, log>>

\* main, lines 291-294: print_summary and the exit status
SummaryAndExit ==
    /\ pc = "summary"
    /\ log' = Append(log, "summary")
    /\ exitCode' = ExitStatus(fail_count)
    /\ pc' = "exit"
    /\ UNCHANGED <<env, fs, run, check, probe, word_files, i, success_count,
                   fail_count, errors, cur, ret, proc, crashed, calls, results>>

\* the program is started again on the same directories
Rerun ==
    /\ pc = "exit"
    /\ run < MaxRuns
    /\ run' = run + 1
    /\ check' \in BOOLEAN
    /\ pc' = "check_pandoc"
    /\ probe' = "none"
    /\ word_files' = <<>>
    /\ i' = 0
    /\ success_count' = 0
    /\ fail_count' = 0
    /\ errors' = <<>>
    /\ cur' = NoCall
    /\ ret' = NoRet
    /\ proc' = "none"
    /\ exitCode' = -1
    /\ crashed' = FALSE
    /\ calls' = <<>>
    /\ results' = <<>>
    /\ log' = <<>>
    /\ UNCHANGED <<env, fs>>

Next ==
    \/ CheckPandoc
    \/ CheckOnly
    \/ ConvertAllBegin
    \/ ConvertFileCall
    \/ ConvertFileReturn
    \/ Accumulate
    \/ ConvertAllReturn
    \/ SummaryAndExit
    \/ Rerun

Spec == Init /\ [][Next]_vars

TypeOK ==
    /\ pc \in {"check_pandoc", "scan", "convert_all", "loop", "running",
               "returned", "summary", "exit"}
    /\ fs \in [MdPool -> Contents]
    /\ run \in 1..MaxRuns
    /\ i \in 0..Len(word_files)
    /\ exitCode \in {-1, 0, 1}
    /\ proc \in {"none", "running", "exited", "killed"}

\* ---- properties -----------------------------------------------------------
\* the .docx files that are in the input directory
Discovered == IF inputDir.exists THEN GlobDocx(inputDir.entries) ELSE {}

\* check_pandoc returned True
ToolAvailable == probe # "none" /\ check_pandoc(probe) = "True"

\* the derived output name of the call in progress
CurMd == Stem(cur.file) \o <<".md">>

\* number of entries of a sequence that equal e
RECURSIVE CountOf(_, _)
CountOf(s, e) ==
    IF s = <<>> THEN 0
    ELSE (IF s[1] = e THEN 1 ELSE 0) + CountOf(Tail(s), e)

\* the "<filename>: <message>" entries of the failed results, in order
RECURSIVE FailureEntries(_)
FailureEntries(rs) ==
    IF rs = <<>> THEN <<>>
    ELSE (IF rs[1][2] THEN <<>> ELSE <<rs[1][1] \o <<": ">> \o rs[1][3]>>)
         \o FailureEntries(Tail(rs))

\* C1: success_count + fail_count equals the number of files processed so far
\* at every point of the loop of convert_all, and equals the number of files
\* returned by find_word_files (the .docx files of the input directory) when
\* convert_all returns, whatever the outcome of each converter invocation.
C1_CountsAddUp ==
    /\ pc \in {"loop", "running", "returned"} => success_count + fail_count = i
    /\ pc = "summary" =>
          /\ success_count + fail_count = Len(word_files)
          /\ Len(word_files) = Cardinality(Discovered)

C1_Witness ==
    /\ pc = "summary"
    /\ success_count >= 1
    /\ fail_count >= 1

\* C2: a per-file failure never aborts the batch: once the tool is available,
\* a conversion run ends with every discovered file passed to convert_file
\* exactly once and with no exception propagated out of convert_file or
\* convert_all.
C2_NoFileAbortsBatch ==
    (pc = "exit" /\ ~check /\ ToolAvailable) =>
        /\ ~crashed
        /\ calls = word_files

\* C3: without --check the exit code is 1 if the tool is unavailable, 0 if it
\* is available and every discovered file converted successfully (also with no
\* discovered file or no input directory), 1 if it is available and at least
\* one conversion failed; it is never anything but 0 or 1.
C3_ExitCode ==
    (pc = "exit" /\ ~check) =>
        /\ exitCode \in {0, 1}
        /\ ~ToolAvailable => exitCode = 1
        /\ (ToolAvailable /\ \A f \in Discovered :
                \E k \in 1..Len(results) : results[k][1] = f /\ results[k][2])
              => exitCode = 0
        /\ (ToolAvailable /\ \E k \in 1..Len(results) : ~results[k][2])
              => exitCode = 1

C3_Witness ==
    /\ pc = "exit"
    /\ ~check
    /\ ~crashed
    /\ exitCode = 1
    /\ ToolAvailable
    /\ \E k \in 1..Len(results) : results[k][2]
    /\ \E k \in 1..Len(results) : ~results[k][2]

\* C4: when the availability check fails (binary missing, not executable,
\* probe timed out or exited non-zero) main exits with status 1 having done
\* nothing but the check; and in every run the check is the first phase,
\* discovery the second, conversions come only after discovery and the summary
\* only after the last conversion.
C4_CheckFirst ==
    /\ probe \in {"not_found", "os_error", "timeout", "nonzero"} =>
          /\ pc = "exit"
          /\ exitCode = 1
          /\ log = <<"check">>
          /\ calls = <<>>
    /\ \A k \in 1..Len(log) :
          /\ log[k] = "check" <=> k = 1
          /\ log[k] = "discover" => k = 2
          /\ log[k] = "convert" => (k >= 3 /\ log[2] = "discover")
          /\ log[k] = "summary" =>
                /\ k = Len(log)
                /\ log[2] = "discover"
                /\ CountOf(log, "convert") = Len(word_files)
                /\ Len(results) = Len(word_files)

C4_Witness ==
    /\ probe \in {"not_found", "os_error", "timeout", "nonzero"}
    /\ pc = "exit"
    /\ ~check
    /\ Discovered # {}

\* C5: convert_file returns True exactly when the converter came back within
\* the timeout with exit status zero and the derived output file then exists
\* with a size greater than zero.
C5_SuccessIff ==
    pc = "returned" =>
        (ret[1] <=> (/\ cur.outcome = "zero"
                     /\ fs[CurMd] # Absent
                     /\ fs[CurMd] # Empty))

C5_Witness ==
    /\ pc = "returned"
    /\ ret[1]
    /\ cur.pre = Absent

\* C6: whenever the converter exits zero but this invocation left no output or
\* a zero-byte output, convert_file returns a failure with the empty-output
\* message, whatever was in the output directory before.
C6_EmptyOutputIsFailure ==
    (pc = "returned" /\ cur.outcome = "zero" /\ cur.effect \in {"none", "empty"}) =>
        ret = <<FALSE, <<"output empty: ">> \o CurMd>>

\* C7: in --check mode with the tool available, convert_file is never called,
\* the converter is never started for a file, no output file changes, and the
\* process exits 0 after the availability check and the scan.
C7_Inv ==
    check =>
        /\ calls = <<>>
        /\ results = <<>>
        /\ proc = "none"
        /\ (pc = "exit" /\ ToolAvailable) =>
              (exitCode = 0 /\ ~crashed /\ log = <<"check", "discover">>)

C7_CheckOnlyScans == [] C7_Inv /\ [][check => fs' = fs]_vars

C7_Witness ==
    /\ check
    /\ pc = "exit"
    /\ ToolAvailable
    /\ word_files # <<>>

\* C8: when the converter exceeds the time bound, convert_file returns a
\* failure with the timeout message, which is none of the other messages, the
\* converter process is not running any more, and convert_all goes on with the
\* loop: the file is counted as failed and the next one is taken.
C8_Inv ==
    /\ (pc = "returned" /\ cur.outcome = "timeout") =>
          /\ ret = <<FALSE, <<"timed out (60s)">>>>
          /\ ret[2] # <<"output empty: ">> \o CurMd
          /\ ret[2][1] \notin {"failed: ", "exception: "}
          /\ proc = "killed"
    /\ pc # "running" => proc # "running"

C8_Timeout ==
    /\ [] C8_Inv
    /\ [][(pc = "returned" /\ cur.outcome = "timeout") =>
             (pc' = "loop" /\ i' = i + 1 /\ fail_count' = fail_count + 1
              /\ exitCode' = -1)]_vars

C8_Witness ==
    /\ pc = "running"
    /\ i >= 1
    /\ results[i][3] = <<"timed out (60s)">>

C10_ErrorList ==
    /\ Len(errors) = fail_count
    /\ errors = FailureEntries(SubSeq(results, 1, i))

C10_Witness ==
    /\ pc = "summary"
    /\ Len(errors) = 2
    /\ errors[1] # errors[2]

====
